---- MODULE Spec2Model ----
(***************************************************************************)
(* Model of preprocess/DataOperation.py: stitching, superposing and        *)
(* aggregating of event-sequence databases, and the constructor of         *)
(* SequenceSampler.                                                        *)
(*                                                                         *)
(* Timestamps are integers (the operations only add, subtract, compare and *)
(* divide them by dt before rounding, all of which is exact on small       *)
(* integers in float64).  Sequence features are exact rationals, so that   *)
(* the average of two features is computed and not assumed.  A numpy array *)
(* is a TLA+ sequence; Python's 0-based index k is position k+1.           *)
(* Python's None is the empty tuple and a present value v is <<v>>.        *)
(***************************************************************************)
EXTENDS Integers, Sequences, FiniteSets, TLC

VARIABLES
    database1,   \* first argument of the call
    database2,   \* second argument of the call (stitching, superposing)
    method,      \* the method argument: None or <<string>>
    dt,          \* the dt argument of aggregating
    op,          \* "none" before a call, else the function that was called
    raised,      \* "none", or the exception the call ended with
    output,      \* the local `output` of the call, returned when nothing is raised
    index,       \* random methods: the permutation drawn by np.random.permutation
    paired,      \* per target i, the index in database2 of the sequence used as seq_j
    probs,       \* feature methods: per target i, the array prob handed to np.random.choice
    orders,      \* superposing: per target i, the result of np.argsort
    feeds,       \* number of results handed on as an argument of a later call
    memory_size, \* SequenceSampler: self.memory_size, None or <<K>>
    event_cell,  \* SequenceSampler: self.event_cell, tuples (target, former, i)
    time_cell    \* SequenceSampler: self.time_cell, tuples (target_t, former_t)

vars == <<database1, database2, method, dt, op, raised, output, index, paired,
          probs, orders, feeds, memory_size, event_cell, time_cell>>

----------------------------------------------------------------------------
(* Bounds of the model *)

MaxTime == 1        \* input timestamps, t_start and t_stop range over 0..MaxTime
MaxLen == 1         \* events per input sequence
MaxFeeds == 1       \* results that are fed back as an argument of a later call
MaxDt == 5          \* dt ranges over 1..MaxDt
MaxSeqs1 == 3       \* sequences in database1 where the lists vary
MaxSeqs2 == 2       \* sequences in database2 where the lists vary
MaxAggTime == 3     \* timestamps, t_start and t_stop of the sequences to aggregate
MaxAggLen == 2      \* events of a sequence to aggregate
MaxMemory == 3      \* memorysize ranges over None and 1..MaxMemory

----------------------------------------------------------------------------
(* Python values *)

None == <<>>
Some(v) == <<v>>
IsNone(x) == Len(x) = 0
Val(x) == x[1]

Range(n) == 0 .. (n - 1)
Min2(a, b) == IF a <= b THEN a ELSE b
Max2(a, b) == IF a >= b THEN a ELSE b
Abs(a) == IF a < 0 THEN -a ELSE a

RECURSIVE GCD(_, _)
GCD(a, b) == IF b = 0 THEN a ELSE GCD(b, a % b)

(* exact rationals num/den, den > 0, in lowest terms *)
Rat(n, d) ==
    LET g == GCD(Abs(n), d)
    IN  IF n = 0 THEN [num |-> 0, den |-> 1] ELSE [num |-> n \div g, den |-> d \div g]
RatInt(n) == [num |-> n, den |-> 1]
RatAdd(a, b) == Rat(a.num * b.den + b.num * a.den, a.den * b.den)
RatSub(a, b) == Rat(a.num * b.den - b.num * a.den, a.den * b.den)
RatMul(a, b) == Rat(a.num * b.num, a.den * b.den)
RatHalf(a) == Rat(a.num, 2 * a.den)

RECURSIVE SumSeq(_)
SumSeq(s) == IF Len(s) = 0 THEN 0 ELSE s[1] + SumSeq(Tail(s))

RECURSIVE RatSum(_)
RatSum(s) == IF Len(s) = 0 THEN RatInt(0) ELSE RatAdd(s[1], RatSum(Tail(s)))

(* mutant: n independent draws from 0..n-1, which may repeat *)
DrawsWithRepeats(n) == [1 .. n -> Range(n)]

(* all permutations of 0..n-1, as sequences of length n *)
Permutations0(n) ==
    {p \in [1 .. n -> Range(n)] : \A a, b \in 1 .. n : p[a] = p[b] => a = b}

----------------------------------------------------------------------------
(* The data format of the module docstring *)

(* one sequence: {'times', 'events', 'seq_feature', 't_start', 't_stop', 'label'} *)
Sequence(times, events, seq_feature, t_start, t_stop, label) ==
    [times |-> times, events |-> events, seq_feature |-> seq_feature,
     t_start |-> t_start, t_stop |-> t_stop, label |-> label]

TypeNames == {"a", "b"}
SeqNames == <<"s0", "s1", "s2", "s3", "s4", "s5">>

(* the dicts type2idx: bijections from the type names to 0..C-1 *)
TypeMaps ==
    {f \in [TypeNames -> Range(Cardinality(TypeNames))] :
        \A x, y \in TypeNames : f[x] = f[y] => x = y}

(* database = {'event_features', 'type2idx', 'idx2type', 'seq2idx', 'idx2seq',
   'sequences'}; idx2type, seq2idx and idx2seq are the inverse and the naming
   of the positions. *)
Database(event_features, type2idx, sequences) ==
    [event_features |-> event_features,
     type2idx |-> type2idx,
     idx2type |-> [k \in Range(Cardinality(DOMAIN type2idx)) |->
                     CHOOSE x \in DOMAIN type2idx : type2idx[x] = k],
     seq2idx |-> [x \in {SeqNames[k] : k \in 1 .. Len(sequences)} |->
                     (CHOOSE k \in 1 .. Len(sequences) : SeqNames[k] = x) - 1],
     idx2seq |-> [k \in Range(Len(sequences)) |-> SeqNames[k + 1]],
     sequences |-> sequences]

----------------------------------------------------------------------------
(* numpy on arrays *)

(* mutant: the shift by the target's stop time is left out *)
ShiftArrayNoStop(a, c, d) == [k \in 1 .. Len(a) |-> a[k] - c]

(* mutant: start and stop are swapped in the shift *)
ShiftArraySwapped(a, c, d) == [k \in 1 .. Len(a) |-> a[k] - d + c]

(* a - c + d, element-wise *)
ShiftArray(a, c, d) == [k \in 1 .. Len(a) |-> a[k] - c + d]

(* a[order]: fancy indexing with an array of 0-based positions *)
Take(a, order) == [k \in 1 .. Len(order) |-> a[order[k] + 1]]

(* np.argsort(a): the tie-break between equal keys is whatever the sort
   algorithm leaves, so every ordering that sorts a is a possible result. *)
RECURSIVE ArgSortsOf(_, _)
ArgSortsOf(a, rest) ==
    IF rest = {} THEN {<<>>}
    ELSE UNION {{<<k>> \o p : p \in ArgSortsOf(a, rest \ {k})} :
                 k \in {x \in rest : \A y \in rest : a[x + 1] <= a[y + 1]}}
ArgSorts(a) == ArgSortsOf(a, Range(Len(a)))

(* mutant: the sum of the two features, not halved *)
FeatureSum(f1, f2) == [k \in 1 .. Len(f1) |-> RatAdd(f1[k], f2[k])]

(* (f1 + f2) / 2 on feature vectors *)
FeatureMean(f1, f2) == [k \in 1 .. Len(f1) |-> RatHalf(RatAdd(f1[k], f2[k]))]

(* np.linalg.norm(f1 - f2) ** 2 *)
NormSq(f1, f2) ==
    RatSum([k \in 1 .. Len(f1) |-> RatMul(RatSub(f1[k], f2[k]), RatSub(f1[k], f2[k]))])

(* A weight is 0 or exp(-e) with e an exact rational: [pos, e]. *)
ZeroWeight == [pos |-> FALSE, e |-> RatInt(0)]
ExpNeg(e) == [pos |-> TRUE, e |-> e]
OneWeight == ExpNeg(RatInt(0))
WeightMul(w1, w2) ==
    IF w1.pos /\ w2.pos THEN ExpNeg(RatAdd(w1.e, w2.e)) ELSE ZeroWeight

(* np.sum(prob) > 0: weights are never negative *)
SumPositive(w) == \E k \in 1 .. Len(w) : w[k].pos

(* An entry of the array handed to np.random.choice is the quotient of a
   weight by a sum of weights: [numer, denom], denom the summed weights. *)
Quotient(w, ws) == [numer |-> w, denom |-> ws]

(* np.random.choice(n, p=prob) returns an index of non-zero probability *)
Choosable(prob) == {j \in Range(Len(prob)) : prob[j + 1].numer.pos}

----------------------------------------------------------------------------
(* stitching and superposing: the work on one pair (seq_i, seq_j) *)

BothFeatures(seq_i, seq_j) == ~IsNone(seq_i.seq_feature) /\ ~IsNone(seq_j.seq_feature)

(* 'update features' *)
UpdateFeature(seq_i, seq_j, out_i) ==
    IF BothFeatures(seq_i, seq_j)
    THEN [out_i EXCEPT !.seq_feature =
             Some(FeatureMean(Val(seq_i.seq_feature), Val(seq_j.seq_feature)))]
    ELSE out_i

(* mutant: the new stop time adds the candidate's stop time, not its length *)
StitchPairStopUnshifted(seq_i, seq_j, out_i) ==
    UpdateFeature(seq_i, seq_j,
        [out_i EXCEPT !.times = seq_i.times \o ShiftArray(seq_j.times, seq_j.t_start, seq_i.t_stop),
                      !.events = seq_i.events \o seq_j.events,
                      !.t_stop = seq_i.t_stop + seq_j.t_stop])

(* the body of the stitching loops; out_i is output['sequences'][i] *)
StitchPair(seq_i, seq_j, out_i) ==
    LET times1 == seq_i.times
        times2 == ShiftArray(seq_j.times, seq_j.t_start, seq_i.t_stop)
    IN  UpdateFeature(seq_i, seq_j,
            [out_i EXCEPT !.times = times1 \o times2,
                          !.events = seq_i.events \o seq_j.events,
                          !.t_stop = seq_i.t_stop + seq_j.t_stop - seq_j.t_start])

(* mutant: the events are concatenated but not reordered with the times *)
SuperposePairEventsUnsorted(seq_i, seq_j, out_i, order) ==
    UpdateFeature(seq_i, seq_j,
        [out_i EXCEPT !.times = Take(seq_i.times \o seq_j.times, order),
                      !.events = seq_i.events \o seq_j.events,
                      !.t_start = Min2(seq_i.t_start, seq_j.t_stop),
                      !.t_stop = Max2(seq_i.t_stop, seq_j.t_stop)])

(* mutant: the new start time is the smaller of the two start times *)
SuperposePairStartOfB(seq_i, seq_j, out_i, order) ==
    UpdateFeature(seq_i, seq_j,
        [out_i EXCEPT !.times = Take(seq_i.times \o seq_j.times, order),
                      !.events = Take(seq_i.events \o seq_j.events, order),
                      !.t_start = Min2(seq_i.t_start, seq_j.t_start),
                      !.t_stop = Max2(seq_i.t_stop, seq_j.t_stop)])

(* the body of the superposing loops, with order the result of np.argsort *)
SuperposePair(seq_i, seq_j, out_i, order) ==
    UpdateFeature(seq_i, seq_j,
        [out_i EXCEPT !.times = Take(seq_i.times \o seq_j.times, order),
                      !.events = Take(seq_i.events \o seq_j.events, order),
                      !.t_start = Min2(seq_i.t_start, seq_j.t_stop),
                      !.t_stop = Max2(seq_i.t_stop, seq_j.t_stop)])

(* mutant: a candidate that starts exactly when the target stops is accepted *)
LaterOrAt(seq_i, seq_j) == seq_j.t_start >= seq_i.t_stop

(* the weight of candidate seq_j for target seq_i in the feature methods *)
Later(seq_i, seq_j) == seq_j.t_start > seq_i.t_stop

(* mutant: the label veto is never applied *)
LabelsDifferNever(seq_i, seq_j) == FALSE

LabelsDiffer(seq_i, seq_j) ==
    /\ ~IsNone(seq_i.label)
    /\ ~IsNone(seq_j.label)
    /\ Val(seq_i.label) # Val(seq_j.label)

Weight(seq_i, seq_j) ==
    IF Later(seq_i, seq_j)
    THEN LET d == seq_j.t_start - seq_i.t_stop
             w0 == ExpNeg(RatInt(d * d))
             w1 == IF BothFeatures(seq_i, seq_j)
                   THEN WeightMul(w0, ExpNeg(NormSq(Val(seq_i.seq_feature),
                                                    Val(seq_j.seq_feature))))
                   ELSE w0
         IN  IF LabelsDiffer(seq_i, seq_j) THEN ZeroWeight ELSE w1
    ELSE ZeroWeight

(* prob after the inner loop over the candidates *)
Weights(seq_i, seqs2) == [j \in 1 .. Len(seqs2) |-> Weight(seq_i, seqs2[j])]

(* 'sampling a sequence from database2': prob / np.sum(prob), or ones / n *)
Uniform(n) == [j \in 1 .. n |-> Quotient(OneWeight, [k \in 1 .. n |-> OneWeight])]

(* mutant: no fall-back to equal probabilities when every weight is 0 *)
NormaliseNoFallback(w) == [j \in 1 .. Len(w) |-> Quotient(w[j], w)]

Normalise(w) ==
    IF SumPositive(w)
    THEN [j \in 1 .. Len(w) |-> Quotient(w[j], w)]
    ELSE Uniform(Len(w))

Prob(seq_i, seqs2) == Normalise(Weights(seq_i, seqs2))

(* i % len(database2['sequences']) and index[j], for the 0-based target i *)
RandomPartner(idx, i, n2) == idx[(i % n2) + 1]

----------------------------------------------------------------------------
(* What a call leaves behind: the exception, the local output and the draws *)

Outcome(r, out, idx, prd, prb, ord) ==
    [raised |-> r, output |-> out, index |-> idx, paired |-> prd, probs |-> prb,
     orders |-> ord]

CatTimes(db1, db2, prd, i) ==
    db1.sequences[i].times \o db2.sequences[prd[i] + 1].times

(* the sequences of output after a loop that paired target i with prd[i],
   for the targets the loop got to *)
Stitched(db1, db2, prd) ==
    [i \in 1 .. Len(db1.sequences) |->
        IF i <= Len(prd)
        THEN StitchPair(db1.sequences[i], db2.sequences[prd[i] + 1], db1.sequences[i])
        ELSE db1.sequences[i]]

Superposed(db1, db2, prd, ord) ==
    [i \in 1 .. Len(db1.sequences) |->
        IF i <= Len(prd)
        THEN SuperposePair(db1.sequences[i], db2.sequences[prd[i] + 1],
                           db1.sequences[i], ord[i])
        ELSE db1.sequences[i]]

(* the possible results of np.argsort for every target the loop got to *)
OrderChoices(db1, db2, prd) ==
    {ord \in [1 .. Len(prd) ->
                UNION {ArgSorts(CatTimes(db1, db2, prd, i)) : i \in 1 .. Len(prd)}] :
        \A i \in 1 .. Len(prd) : ord[i] \in ArgSorts(CatTimes(db1, db2, prd, i))}

(* the draws of np.random.choice for every target *)
FeatureChoices(db1, db2) ==
    {prd \in [1 .. Len(db1.sequences) -> Range(Len(db2.sequences))] :
        \A i \in 1 .. Len(db1.sequences) :
            prd[i] \in Choosable(Prob(db1.sequences[i], db2.sequences))}

FeatureProbs(db1, db2) ==
    [i \in 1 .. Len(db1.sequences) |-> Prob(db1.sequences[i], db2.sequences)]

IsRandom(m) == IsNone(m) \/ Val(m) = "random"

(* mutant: every method that is not a random one is taken for 'feature' *)
IsFeatureOrElse(m) == ~IsNone(m) /\ Val(m) # "random"

IsFeature(m) == ~IsNone(m) /\ Val(m) = "feature"

(* mutant: only the type names are compared, not the indices they map to *)
CompatibleNames(db1, db2) == DOMAIN db1.type2idx = DOMAIN db2.type2idx

Compatible(db1, db2) == db1.type2idx = db2.type2idx

(* the targets for which np.random.choice has nothing to draw: it raises
   ValueError when a is 0 or when p does not sum to 1 *)
Undrawable(db1, db2) ==
    {i \in 1 .. Len(db1.sequences) : Choosable(Prob(db1.sequences[i], db2.sequences)) = {}}

(* the pairings a call can make: [raised, index, paired, probs]; an exception
   leaves the loop at the first target that cannot be paired *)
Pairings(db1, db2, m) ==
    LET n1 == Len(db1.sequences)
        n2 == Len(db2.sequences)
    IN  IF IsRandom(m)
        THEN {IF n1 > 0 /\ n2 = 0
              THEN [raised |-> "ZeroDivisionError", index |-> idx, paired |-> <<>>,
                    probs |-> <<>>]
              ELSE [raised |-> "none", index |-> idx,
                    paired |-> [i \in 1 .. n1 |-> RandomPartner(idx, i - 1, n2)],
                    probs |-> <<>>] :
              idx \in Permutations0(n2)}
        ELSE IF Undrawable(db1, db2) # {}
        THEN LET first == CHOOSE i \in Undrawable(db1, db2) :
                              \A k \in Undrawable(db1, db2) : i <= k
             IN  {[raised |-> "ValueError", index |-> <<>>,
                   paired |-> prd,
                   probs |-> SubSeq(FeatureProbs(db1, db2), 1, first)] :
                  prd \in {q \in [1 .. first - 1 -> Range(n2)] :
                              \A i \in 1 .. first - 1 :
                                  q[i] \in Choosable(Prob(db1.sequences[i], db2.sequences))}}
        ELSE {[raised |-> "none", index |-> <<>>, paired |-> prd,
               probs |-> FeatureProbs(db1, db2)] : prd \in FeatureChoices(db1, db2)}

(* output = copy.deepcopy(database1), then the branch taken; an exception
   leaves output as the loop made it so far *)
StitchingOutcomes(db1, db2, m) ==
    IF Compatible(db1, db2) /\ (IsRandom(m) \/ IsFeature(m))
    THEN {Outcome(p.raised, [db1 EXCEPT !.sequences = Stitched(db1, db2, p.paired)],
                  p.index, p.paired, p.probs, <<>>) :
          p \in Pairings(db1, db2, m)}
    ELSE {Outcome("none", db1, <<>>, <<>>, <<>>, <<>>)}

SuperposingOutcomes(db1, db2, m) ==
    IF Compatible(db1, db2) /\ (IsRandom(m) \/ IsFeature(m))
    THEN UNION {{Outcome(p.raised,
                         [db1 EXCEPT !.sequences = Superposed(db1, db2, p.paired, ord)],
                         p.index, p.paired, p.probs, ord) :
                 ord \in OrderChoices(db1, db2, p.paired)} :
                p \in Pairings(db1, db2, m)}
    ELSE {Outcome("none", db1, <<>>, <<>>, <<>>, <<>>)}

----------------------------------------------------------------------------
(* aggregating *)

(* mutant: the quotient is truncated instead of rounded *)
RoundDown(p, q) == p \div q

(* Python's round(p / q) for q > 0: to the nearest integer, halves to even *)
Round(p, q) ==
    LET f == p \div q
        r == p - f * q
    IN  IF 2 * r < q THEN f
        ELSE IF 2 * r > q THEN f + 1
        ELSE IF f % 2 = 0 THEN f ELSE f + 1

(* mutant: the bin of the stop time itself is not allocated *)
NumBinsNoLast(seq_i, d) == Round(seq_i.t_stop - seq_i.t_start, d)

(* num_bins = round((t_stop - t_start)/dt) + 1 *)
NumBins(seq_i, d) == Round(seq_i.t_stop - seq_i.t_start, d) + 1

(* mutant: the bins are stamped with their start, n*dt, not their end *)
BinStarts(seq_i, d, num_bins) == [n \in 1 .. num_bins |-> seq_i.t_start + (n - 1) * d]

(* times[n] = t_start + (n+1)*dt for n in range(num_bins) *)
BinTimes(seq_i, d, num_bins) == [n \in 1 .. num_bins |-> seq_i.t_start + n * d]

(* n = int(round((times[k] - t_start)/dt)) for the event at position k *)
BinIndex(seq_i, k, d) == Round(seq_i.times[k] - seq_i.t_start, d)

(* numpy indexing along an axis of the given size: a negative index counts
   from the end, anything outside [-size, size) is an IndexError *)
InBounds(n, size) == -size <= n /\ n < size
Wrap(n, size) == IF n < 0 THEN n + size ELSE n

Zeros(num_bins, num_types) == [n \in 1 .. num_bins |-> [c \in 1 .. num_types |-> 0]]

(* the loop 'for k in range(seq_i['times'].shape[0])' from event k on *)
RECURSIVE CountEvents(_, _, _, _, _)
CountEvents(seq_i, d, k, events, num_types) ==
    IF k > Len(seq_i.times) THEN [fault |-> FALSE, events |-> events]
    ELSE LET n == BinIndex(seq_i, k, d)
             c == seq_i.events[k]
             num_bins == Len(events)
         IN  IF ~InBounds(n, num_bins) \/ ~InBounds(c, num_types)
             THEN [fault |-> TRUE, events |-> events]
             ELSE CountEvents(seq_i, d, k + 1,
                      [events EXCEPT ![Wrap(n, num_bins) + 1][Wrap(c, num_types) + 1] = @ + 1],
                      num_types)

(* the loop over the sequences from sequence i on; out is the local output *)
RECURSIVE AggregateFrom(_, _, _, _)
AggregateFrom(db, d, i, out) ==
    IF i > Len(db.sequences) THEN Outcome("none", out, <<>>, <<>>, <<>>, <<>>)
    ELSE LET seq_i == db.sequences[i]
             num_types == Cardinality(DOMAIN db.type2idx)
             num_bins == NumBins(seq_i, d)
         IN  IF num_bins < 0
             THEN Outcome("ValueError", out, <<>>, <<>>, <<>>, <<>>)
             ELSE LET r == CountEvents(seq_i, d, 1, Zeros(num_bins, num_types), num_types)
                  IN  IF r.fault
                      THEN Outcome("IndexError", out, <<>>, <<>>, <<>>, <<>>)
                      ELSE AggregateFrom(db, d, i + 1,
                               [out EXCEPT !.sequences[i].times = BinTimes(seq_i, d, num_bins),
                                           !.sequences[i].events = r.events])

AggregatingOutcome(db, d) == AggregateFrom(db, d, 1, db)

----------------------------------------------------------------------------
(* The calls *)

Methods == {None, Some("random"), Some("feature"), Some("other")}

(* mutant: output is database1 itself, so what is written to output is
   written to the caller's database *)
FirstArgumentAliased(db1, out) == out

(* the caller's first database after the call: output is a deep copy of it,
   and all writes of the loops go to output *)
FirstArgument(db1, out) == db1

Return(f, m, d, o) ==
    /\ op' = f
    /\ method' = m
    /\ dt' = d
    /\ raised' = o.raised
    /\ output' = o.output
    /\ index' = o.index
    /\ paired' = o.paired
    /\ probs' = o.probs
    /\ orders' = o.orders
    /\ database1' = FirstArgument(database1, o.output)
    /\ UNCHANGED <<database2, feeds, memory_size, event_cell, time_cell>>

(* stitching(database1, database2, method) *)
StitchingCall(m) ==
    /\ op = "none"
    /\ \E o \in StitchingOutcomes(database1, database2, m) : Return("stitching", m, dt, o)

Stitching == \E m \in Methods : StitchingCall(m)

(* superposing(database1, database2, method) *)
SuperposingCall(m) ==
    /\ op = "none"
    /\ \E o \in SuperposingOutcomes(database1, database2, m) : Return("superposing", m, dt, o)

Superposing == \E m \in Methods : SuperposingCall(m)

(* aggregating(database1, dt) *)
Aggregating ==
    /\ op = "none"
    /\ \E d \in 1 .. MaxDt :
          Return("aggregating", method, d, AggregatingOutcome(database1, d))

(* the caller hands the returned database to a later call, as its first or
   its second argument *)
FeedBack ==
    /\ op \in {"stitching", "superposing"}
    /\ raised = "none"
    /\ feeds < MaxFeeds
    /\ \/ database1' = output /\ UNCHANGED database2
       \/ database2' = output /\ UNCHANGED database1
    /\ feeds' = feeds + 1
    /\ op' = "none"
    /\ raised' = "none"
    /\ output' = database1'
    /\ index' = <<>>
    /\ paired' = <<>>
    /\ probs' = <<>>
    /\ orders' = <<>>
    /\ UNCHANGED <<method, dt, memory_size, event_cell, time_cell>>

----------------------------------------------------------------------------
(* SequenceSampler.__init__ *)

(* a[-k:] for k > 0: the last k entries, all of a when it has fewer *)
LastOf(a, k) == SubSeq(a, Max2(1, Len(a) - k + 1), Len(a))

(* former[-memorysize:] = events, on former of memorysize entries: the slice
   is all of former, and numpy broadcasts an array of one entry over it and
   raises ValueError for any other length that is not memorysize *)
AssignAll(former, a) ==
    IF Len(a) = Len(former) THEN [raised |-> "none", array |-> a]
    ELSE IF Len(a) = 1 THEN [raised |-> "none", array |-> [k \in 1 .. Len(former) |-> a[1]]]
    ELSE [raised |-> "ValueError", array |-> former]

(* former and former_t of one sequence; pad is the result of
   np.random.choice(len(type2idx), memorysize) *)
History(seq_i, msize, pad) ==
    IF IsNone(msize)
    THEN [raised |-> "none", former |-> seq_i.events, former_t |-> seq_i.times]
    ELSE LET k == Val(msize)
             pad_t == [x \in 1 .. k |-> seq_i.t_start]
         IN  IF 0 < Len(seq_i.times) /\ Len(seq_i.times) < k
             THEN LET e == AssignAll(pad, seq_i.events)
                      t == AssignAll(pad_t, seq_i.times)
                  IN  IF e.raised # "none"
                      THEN [raised |-> e.raised, former |-> pad, former_t |-> pad_t]
                      ELSE [raised |-> t.raised, former |-> e.array, former_t |-> t.array]
             ELSE [raised |-> "none", former |-> LastOf(seq_i.events, k),
                   former_t |-> LastOf(seq_i.times, k)]

(* the loop over the sequences from sequence i on; pads[i] is the draw of
   np.random.choice for sequence i *)
RECURSIVE SampleFrom(_, _, _, _, _, _)
SampleFrom(db, msize, pads, i, ecell, tcell) ==
    IF i > Len(db.sequences)
    THEN [raised |-> "none", event_cell |-> ecell, time_cell |-> tcell]
    ELSE LET seq_i == db.sequences[i]
             h == History(seq_i, msize, pads[i])
         IN  IF h.raised # "none"
             THEN [raised |-> h.raised, event_cell |-> ecell, time_cell |-> tcell]
             ELSE SampleFrom(db, msize, pads, i + 1,
                      Append(ecell, [target |-> seq_i.label, former |-> h.former, i |-> i - 1]),
                      Append(tcell, [target_t |-> seq_i.t_stop, former_t |-> h.former_t]))

MemorySizes == {None} \cup {Some(k) : k \in 1 .. MaxMemory}

(* SequenceSampler(database1, memorysize) *)
SequenceSamplerInit ==
    /\ op = "none"
    /\ \E msize \in MemorySizes :
          \E pads \in [1 .. Len(database1.sequences) ->
                          [1 .. (IF IsNone(msize) THEN 0 ELSE Val(msize)) ->
                              Range(Cardinality(DOMAIN database1.type2idx))]] :
             LET r == SampleFrom(database1, msize, pads, 1, <<>>, <<>>)
             IN  /\ op' = "SequenceSampler"
                 /\ memory_size' = msize
                 /\ raised' = r.raised
                 /\ event_cell' = r.event_cell
                 /\ time_cell' = r.time_cell
    /\ UNCHANGED <<database1, database2, method, dt, output, index, paired, probs,
                   orders, feeds>>

----------------------------------------------------------------------------
(* The databases the calls are made on *)

EventTypes == Range(Cardinality(TypeNames))

(* arrays of at most maxLen non-decreasing timestamps out of T *)
TimeArrays(T, maxLen) ==
    {t \in UNION {[1 .. n -> T] : n \in 0 .. maxLen} :
        \A k \in 1 .. Len(t) - 1 : t[k] <= t[k + 1]}

(* the arrays times and events of one sequence: equal lengths *)
TimedEvents(T, maxLen) ==
    UNION {{<<t, e>> : t \in {x \in TimeArrays(T, maxLen) : Len(x) = n},
                       e \in [1 .. n -> EventTypes]} : n \in 0 .. maxLen}

(* t_start <= t_stop; the events need not lie in the window *)
Windows(T) == {w \in T \X T : w[1] <= w[2]}

InputSequences(T, maxLen, Features, Labels) ==
    {Sequence(te[1], te[2], f, w[1], w[2], l) :
        te \in TimedEvents(T, maxLen), w \in Windows(T), f \in Features, l \in Labels}

(* lists of n sequences, n in Sizes *)
Lists(S, Sizes) == UNION {[1 .. n -> S] : n \in Sizes}

NoCall ==
    /\ method = None
    /\ dt = 0
    /\ op = "none"
    /\ raised = "none"
    /\ output = database1
    /\ index = <<>>
    /\ paired = <<>>
    /\ probs = <<>>
    /\ orders = <<>>
    /\ feeds = 0
    /\ memory_size = None
    /\ event_cell = <<>>
    /\ time_cell = <<>>

TypeMap0 == CHOOSE f \in TypeMaps : f["a"] = 0

Rationals(lo, hi) == {RatInt(n) : n \in lo .. hi}

(* Two compatible databases of one sequence each: every array of timestamps
   and event types and every window, no features, no labels. *)
Init ==
    /\ \E s1, s2 \in InputSequences(0 .. MaxTime, MaxLen, {None}, {None}) :
          /\ database1 = Database(None, TypeMap0, <<s1>>)
          /\ database2 = Database(None, TypeMap0, <<s2>>)
    /\ NoCall

(* the window is not reversed and holds every timestamp of the sequence *)
Contained(q) ==
    /\ q.t_start <= q.t_stop
    /\ \A k \in 1 .. Len(q.times) : q.t_start <= q.times[k] /\ q.times[k] <= q.t_stop

(* Two compatible databases of one sequence each, every event of which lies
   in the window of its sequence *)
InitContained ==
    /\ \E s1, s2 \in {q \in InputSequences(0 .. MaxTime, MaxLen, {None}, {None}) :
                          Contained(q)} :
          /\ database1 = Database(None, TypeMap0, <<s1>>)
          /\ database2 = Database(None, TypeMap0, <<s2>>)
    /\ NoCall

(* One target and two candidates, each observed at one instant (t_start =
   t_stop), which differ in that instant, in their label and in their
   feature; no events. *)
SelectSequences ==
    {s \in InputSequences(0 .. MaxTime, 0,
                          {None} \cup {Some(<<x>>) : x \in Rationals(0, 1)},
                          {None, Some(0), Some(1)}) : s.t_start = s.t_stop}

InitSelect ==
    /\ \E s1, s2, s3 \in SelectSequences :
          /\ database1 = Database(None, TypeMap0, <<s1>>)
          /\ database2 = Database(None, TypeMap0, <<s2, s3>>)
    /\ NoCall

(* Databases of 0..MaxSeqs1 and 0..MaxSeqs2 sequences with any type2idx for
   the second one and with event features or without; the sequences hold no
   events and are observed from 0 to 0 or from 0 to 1. *)
ListSequences == {s \in InputSequences(0 .. 1, 0, {None}, {None}) : s.t_start = 0}

EventFeatures == {None, Some(<<<<RatInt(0), RatInt(1)>>>>)}

InitLists ==
    /\ \E l1 \in Lists(ListSequences, 0 .. MaxSeqs1), l2 \in Lists(ListSequences, 0 .. MaxSeqs2),
          tm \in TypeMaps, ef \in EventFeatures :
          /\ database1 = Database(ef, TypeMap0, l1)
          /\ database2 = Database(None, tm, l2)
    /\ NoCall

EmptyDatabase == Database(None, TypeMap0, <<>>)

(* One database of one sequence for aggregating *)
InitAgg ==
    /\ \E s \in InputSequences(0 .. MaxAggTime, MaxAggLen, {None}, {None}) :
          database1 = Database(None, TypeMap0, <<s>>)
    /\ database2 = EmptyDatabase
    /\ NoCall

(* The sequences of four events at the timestamps 1, 4, 6 and 9, observed from
   0 to 10 *)
ExampleTimes == {1, 4, 6, 9}

InitExample ==
    /\ \E te \in TimedEvents(ExampleTimes, 4) :
          /\ Len(te[1]) = 4
          /\ database1 = Database(None, TypeMap0, <<Sequence(te[1], te[2], None, 0, 10, None)>>)
    /\ database2 = EmptyDatabase
    /\ NoCall

Next == Stitching \/ Superposing

NextAgg == Aggregating

NextCompose == Stitching \/ Superposing \/ FeedBack

NextCalls == Stitching \/ Superposing \/ Aggregating

NextSampler == SequenceSamplerInit

Spec == Init /\ [][Next]_vars

SpecSelect == InitSelect /\ [][Next]_vars

SpecLists == InitLists /\ [][Next]_vars

SpecAgg == InitAgg /\ [][NextAgg]_vars

SpecExample == InitExample /\ [][NextAgg]_vars

SpecCompose == InitContained /\ [][NextCompose]_vars

SpecCalls == InitLists /\ [][NextCalls]_vars

SpecSampler == InitAgg /\ [][NextSampler]_vars

----------------------------------------------------------------------------
(* Properties *)

Composing == op \in {"stitching", "superposing"}

(* a call that went through one of the two pairing loops and returned *)
PairedBy(f) ==
    /\ op = f
    /\ raised = "none"
    /\ database1.type2idx = database2.type2idx
    /\ (IsRandom(method) \/ IsFeature(method))

Targets == 1 .. Len(database1.sequences)
A(i) == database1.sequences[i]
B(i) == database2.sequences[paired[i] + 1]
Out(i) == output.sequences[i]

(* C1: when the two type2idx dicts differ, stitching and superposing return,
   for every method, a database equal to database1 in every field and every
   sequence, and pair nothing. *)
C1_IncompatibleReturnsFirst ==
    (Composing /\ database1.type2idx # database2.type2idx) =>
        /\ raised = "none"
        /\ output = database1
        /\ paired = <<>>
        /\ index = <<>>
        /\ probs = <<>>

C1_Witness ==
    /\ op = "stitching"
    /\ database1.type2idx # database2.type2idx
    /\ method = Some("feature")
    /\ Len(database1.sequences) > 1
    /\ Len(database2.sequences) > 0

(* C2: after stitching, the times of output sequence i are those of A[i]
   followed by those of the paired B[j], each plus A[i].t_stop - B[j].t_start,
   and its events are those of A[i] followed by those of B[j]; both arrays
   have len(A[i].times) + len(B[j].times) entries, in that order. *)
C2_StitchAppendsShifted ==
    PairedBy("stitching") =>
        \A i \in Targets :
            LET na == Len(A(i).times)
                nb == Len(B(i).times)
            IN  /\ Len(Out(i).times) = na + nb
                /\ Len(Out(i).events) = na + nb
                /\ \A k \in 1 .. na :
                      /\ Out(i).times[k] = A(i).times[k]
                      /\ Out(i).events[k] = A(i).events[k]
                /\ \A k \in 1 .. nb :
                      /\ Out(i).times[na + k] = B(i).times[k] + (A(i).t_stop - B(i).t_start)
                      /\ Out(i).events[na + k] = B(i).events[k]

C2_Witness ==
    /\ PairedBy("stitching")
    /\ Len(database1.sequences) = 1
    /\ Len(A(1).times) = 1
    /\ Len(B(1).times) = 1
    /\ A(1).t_stop # B(1).t_start
    /\ A(1).events # B(1).events

(* number of positions of the arrays times, events that hold the pair (t, c) *)
Occurrences(times, events, t, c) ==
    Cardinality({k \in 1 .. Len(times) : times[k] = t /\ events[k] = c})

(* C3: after superposing, the times of output sequence i are non-decreasing,
   they are the concatenation of A[i].times and B[j].times rearranged by one
   permutation, the events are the concatenated events rearranged by the same
   permutation, and every (timestamp, type) pair occurs as often as in the
   two inputs together. *)
C3_SuperposeSortsJointly ==
    PairedBy("superposing") =>
        \A i \in Targets :
            LET cat == A(i).times \o B(i).times
                cev == A(i).events \o B(i).events
                n == Len(cat)
            IN  /\ Len(Out(i).times) = n
                /\ Len(Out(i).events) = n
                /\ \A k \in 1 .. n - 1 : Out(i).times[k] <= Out(i).times[k + 1]
                /\ Len(orders[i]) = n
                /\ {orders[i][k] : k \in 1 .. n} = Range(n)
                /\ \A k \in 1 .. n :
                      /\ Out(i).times[k] = cat[orders[i][k] + 1]
                      /\ Out(i).events[k] = cev[orders[i][k] + 1]
                /\ \A k \in 1 .. n :
                      Occurrences(Out(i).times, Out(i).events, cat[k], cev[k])
                          = Occurrences(cat, cev, cat[k], cev[k])

(* an event of A[i] ends up after an event of B[j] *)
C3_Witness ==
    /\ PairedBy("superposing")
    /\ Len(database1.sequences) = 1
    /\ Len(A(1).times) = 1
    /\ Len(B(1).times) = 1
    /\ B(1).times[1] < A(1).times[1]
    /\ A(1).events # B(1).events
    /\ orders[1] = <<1, 0>>

(* the sum of all entries of a count matrix *)
Total(events) == SumSeq([n \in 1 .. Len(events) |-> SumSeq(events[n])])

(* C4: an aggregation that ends without a fault gives every sequence
   round((t_stop - t_start)/dt) + 1 bins (the integer nearest to the quotient,
   the even one when two are equally near), and the counts over all bins and
   types add up to the number of events of the sequence. *)
C4_BinsAndTotal ==
    (op = "aggregating" /\ raised = "none") =>
        \A i \in Targets :
            LET span == A(i).t_stop - A(i).t_start
                num_bins == Len(Out(i).times)
                off == 2 * Abs(span - (num_bins - 1) * dt)
            IN  /\ Len(Out(i).events) = num_bins
                /\ off <= dt
                /\ (off = dt => (num_bins - 1) % 2 = 0)
                /\ Total(Out(i).events) = Len(A(i).times)

(* three bins for a window of 3 and dt = 2, and two events in different bins *)
C4_Witness ==
    /\ op = "aggregating"
    /\ raised = "none"
    /\ dt = 2
    /\ A(1).t_stop - A(1).t_start = 3
    /\ Len(Out(1).times) = 3
    /\ Len(A(1).times) = 2
    /\ \E n \in 1 .. 3 : SumSeq(Out(1).events[n]) = 1

ExampleSequence == Sequence(<<1, 4, 6, 9>>, <<0, 1, 0, 1>>, None, 0, 10, None)

OnExample ==
    /\ op = "aggregating"
    /\ dt = 5
    /\ database1.sequences = <<ExampleSequence>>

(* C5 as stated: the example sequence (t_start 0, t_stop 10, times 1, 4, 6, 9,
   types 0, 1, 0, 1) aggregated with dt = 5 gives bins at 5, 10, 15 with counts
   (1, 1), (1, 1), (0, 0). *)
C5_Original ==
    OnExample =>
        /\ raised = "none"
        /\ Out(1).times = <<5, 10, 15>>
        /\ Out(1).events = <<<<1, 1>>, <<1, 1>>, <<0, 0>>>>

(* C5: the example sequence aggregated with dt = 5 gives bins at 5, 10, 15
   with counts (1, 0), (1, 1), (0, 1): the events at 4 and 9 are rounded up
   into the next bin. *)
C5_ExampleRounded ==
    OnExample =>
        /\ raised = "none"
        /\ Out(1).times = <<5, 10, 15>>
        /\ Out(1).events = <<<<1, 0>>, <<1, 1>>, <<0, 1>>>>

C5_Witness == OnExample /\ raised = "none" /\ Len(Out(1).events) = 3

(* a call that went through the feature loop and returned *)
FeaturePaired ==
    /\ Composing
    /\ raised = "none"
    /\ database1.type2idx = database2.type2idx
    /\ IsFeature(method)

Candidates == 1 .. Len(database2.sequences)
Cand(j) == database2.sequences[j]

BothLabelled(s1, s2) == Len(s1.label) = 1 /\ Len(s2.label) = 1

(* C6: in the feature method, a target for which some candidate has a
   non-zero weight is paired with a candidate that starts strictly after the
   target stops and, when both carry a label, has the target's label. *)
C6_FeatureKeepsOrderAndLabel ==
    FeaturePaired =>
        \A i \in Targets :
            (\E j \in Candidates : Weight(A(i), Cand(j)).pos) =>
                /\ B(i).t_start > A(i).t_stop
                /\ BothLabelled(A(i), B(i)) => A(i).label = B(i).label

(* the second candidate is taken although the first one starts later too:
   the first one carries another label *)
C6_Witness ==
    /\ FeaturePaired
    /\ op = "superposing"
    /\ Cand(1).t_start > A(1).t_stop
    /\ BothLabelled(A(1), Cand(1))
    /\ A(1).label # Cand(1).label
    /\ Cand(2).t_start > A(1).t_stop
    /\ BothLabelled(A(1), Cand(2))
    /\ paired = <<1>>

(* the quotient p is 1/n: a positive weight over the sum of n weights equal
   to it *)
IsOneOver(p, n) ==
    /\ p.numer.pos
    /\ Len(p.denom) = n
    /\ \A k \in 1 .. n : p.denom[k].pos /\ p.denom[k].e = p.numer.e

(* C7: in the feature method, when every candidate starts at or before the
   stop time of target i, prob gives each of the |B| candidates 1/|B|, and
   each of them can be drawn. *)
C7_UniformFallback ==
    FeaturePaired =>
        \A i \in Targets :
            (\A j \in Candidates : Cand(j).t_start <= A(i).t_stop) =>
                /\ Len(probs[i]) = Len(database2.sequences)
                /\ \A j \in Candidates : IsOneOver(probs[i][j], Len(database2.sequences))
                /\ Choosable(probs[i]) = Range(Len(database2.sequences))

(* no candidate starts later, one of them starts exactly at the stop time of
   the target, and the other one is drawn *)
C7_Witness ==
    /\ FeaturePaired
    /\ op = "stitching"
    /\ Cand(1).t_start = A(1).t_stop
    /\ Cand(2).t_start < A(1).t_stop
    /\ paired = <<1>>

(* a call that went through the random loop and returned *)
RandomPaired ==
    /\ Composing
    /\ raised = "none"
    /\ database1.type2idx = database2.type2idx
    /\ IsRandom(method)

TimesPaired(j) == Cardinality({i \in Targets : paired[i] = j})

(* C8: in the random method, index is one permutation of the positions of
   database2, target i is paired with index[i mod |B|], every sequence of
   database2 is used floor(|A|/|B|) or ceil(|A|/|B|) times, and any |B|
   consecutive targets get |B| different partners. *)
C8_RandomPairsCyclically ==
    RandomPaired =>
        LET n1 == Len(database1.sequences)
            n2 == Len(database2.sequences)
        IN  /\ Len(index) = n2
            /\ {index[k] : k \in 1 .. n2} = Range(n2)
            /\ Len(paired) = n1
            /\ \A i \in 1 .. n1 : paired[i] = index[((i - 1) % n2) + 1]
            /\ \A j \in Range(n2) :
                  \/ TimesPaired(j) = n1 \div n2
                  \/ TimesPaired(j) = (n1 + n2 - 1) \div n2
            /\ \A first \in 1 .. n1 - n2 + 1 :
                  Cardinality({paired[i] : i \in first .. first + n2 - 1}) = n2

(* three targets on two candidates, drawn in reverse order *)
C8_Witness ==
    /\ RandomPaired
    /\ Len(database1.sequences) = 3
    /\ index = <<1, 0>>
    /\ paired = <<1, 0, 1>>
    /\ database2.sequences[1] # database2.sequences[2]

(* C9: after stitching or superposing, output sequence i has the element-wise
   mean of the features of A[i] and the paired B[j] when both have one, and
   the feature of A[i] (or None, as A[i]) when either has none. *)
C9_FeatureMeanOrFirst ==
    (PairedBy("stitching") \/ PairedBy("superposing")) =>
        \A i \in Targets :
            IF Len(A(i).seq_feature) = 1 /\ Len(B(i).seq_feature) = 1
            THEN LET fa == A(i).seq_feature[1]
                     fb == B(i).seq_feature[1]
                 IN  /\ Len(Out(i).seq_feature) = 1
                     /\ Len(Out(i).seq_feature[1]) = Len(fa)
                     /\ \A k \in 1 .. Len(fa) :
                           RatAdd(Out(i).seq_feature[1][k], Out(i).seq_feature[1][k])
                               = RatAdd(fa[k], fb[k])
            ELSE Out(i).seq_feature = A(i).seq_feature

C9_Witness ==
    /\ PairedBy("superposing")
    /\ IsRandom(method)
    /\ paired = <<1>>
    /\ Len(A(1).seq_feature) = 1
    /\ Len(B(1).seq_feature) = 1
    /\ A(1).seq_feature # B(1).seq_feature
    /\ Out(1).seq_feature = Some(<<Rat(1, 2)>>)

(* C10 as stated: every shifted timestamp taken from B[j] is at or after
   A[i].t_stop. *)
C10_Original ==
    PairedBy("stitching") =>
        \A i \in Targets :
            \A k \in 1 .. Len(B(i).times) :
                Out(i).times[Len(A(i).times) + k] >= A(i).t_stop

(* C10: every shifted timestamp taken from B[j] whose own value is at or
   after B[j].t_start is at or after A[i].t_stop. *)
C10_ShiftedNotBeforeStop ==
    PairedBy("stitching") =>
        \A i \in Targets :
            \A k \in 1 .. Len(B(i).times) :
                B(i).times[k] >= B(i).t_start =>
                    Out(i).times[Len(A(i).times) + k] >= A(i).t_stop

C10_Witness ==
    /\ PairedBy("stitching")
    /\ Len(B(1).times) = 1
    /\ B(1).times[1] > B(1).t_start
    /\ A(1).t_stop > 0
    /\ Out(1).times[Len(A(1).times) + 1] > A(1).t_stop

(* C11: after stitching, output sequence i stops at A[i].t_stop plus the
   length t_stop - t_start of the window of the paired B[j], which is not
   before A[i].t_stop, and it starts at A[i].t_start. *)
C11_StitchStopAdvances ==
    PairedBy("stitching") =>
        \A i \in Targets :
            /\ Out(i).t_stop = A(i).t_stop + (B(i).t_stop - B(i).t_start)
            /\ Out(i).t_stop >= A(i).t_stop
            /\ Out(i).t_start = A(i).t_start

(* a target that starts after 0 is stitched with a window of length 1 *)
C11_Witness ==
    /\ PairedBy("stitching")
    /\ A(1).t_start > 0
    /\ B(1).t_stop > B(1).t_start
    /\ Out(1).t_stop > A(1).t_stop

(* C12: after superposing, by the random or the feature method, output
   sequence i starts at min(A[i].t_start, B[j].t_stop) and stops at
   max(A[i].t_stop, B[j].t_stop): the start of B[j] does not enter. *)
C12_SuperposeWindow ==
    PairedBy("superposing") =>
        \A i \in Targets :
            /\ Out(i).t_start = Min2(A(i).t_start, B(i).t_stop)
            /\ Out(i).t_stop = Max2(A(i).t_stop, B(i).t_stop)

(* the candidate starts before the target and the output does not *)
C12_Witness ==
    /\ PairedBy("superposing")
    /\ IsFeature(method)
    /\ B(1).t_start < A(1).t_start
    /\ Out(1).t_start = A(1).t_start

(* the events of sequence i whose bin index is outside 0 .. num_bins-1 *)
OutOfRangeEvents(i) ==
    {k \in 1 .. Len(A(i).times) :
        LET n == BinIndex(A(i), k, dt)
        IN  n < 0 \/ n >= NumBins(A(i), dt)}

(* C13 as stated: the bin index of an event is used as it is, and an
   aggregation of a sequence with an event whose bin index is below 0 or at
   least num_bins ends in an out-of-range fault. *)
C13_Original ==
    (op = "aggregating" /\ \E i \in Targets : OutOfRangeEvents(i) # {}) =>
        raised = "IndexError"

(* a database in the data format: the index maps name the positions of the
   sequences, the arrays of a sequence have equal lengths, the event types
   are indices of type2idx and the window is not reversed *)
WellFormed(db) ==
    /\ DOMAIN db.idx2seq = Range(Len(db.sequences))
    /\ \A x \in DOMAIN db.seq2idx : db.idx2seq[db.seq2idx[x]] = x
    /\ \A k \in DOMAIN db.idx2type : db.type2idx[db.idx2type[k]] = k
    /\ \A i \in 1 .. Len(db.sequences) :
          LET q == db.sequences[i]
          IN  /\ Len(q.times) = Len(q.events)
              /\ \A k \in 1 .. Len(q.events) : q.events[k] \in DOMAIN db.idx2type
              /\ q.t_start <= q.t_stop

(* every target got one partner out of database2, nothing was raised and the
   local output is a database *)
PairedAll ==
    /\ raised = "none"
    /\ Len(paired) = Len(database1.sequences)
    /\ \A i \in Targets : paired[i] \in Range(Len(database2.sequences))
    /\ Len(output.sequences) = Len(database1.sequences)
    /\ WellFormed(output)

(* a call with equal type2idx and the random or the feature method *)
ComposingByMethod ==
    /\ Composing
    /\ database1.type2idx = database2.type2idx
    /\ (IsRandom(method) \/ IsFeature(method))

(* C14 as stated: for compatible databases of any sizes, the random and the
   feature method pair every target with exactly one sequence of database2,
   and stitching and superposing return a well-formed database without
   raising. *)
C14_Original == ComposingByMethod => PairedAll

(* C14: for compatible databases where database2 holds a sequence or
   database1 holds none, the random and the feature method pair every target
   with exactly one sequence of database2, and stitching and superposing
   return a well-formed database without raising. *)
C14_PairingExists ==
    (ComposingByMethod
        /\ (Len(database2.sequences) > 0 \/ Len(database1.sequences) = 0)) => PairedAll

(* three targets on two candidates none of which starts later: the feature
   method falls back on equal probabilities *)
C14_Witness ==
    /\ ComposingByMethod
    /\ IsFeature(method)
    /\ raised = "none"
    /\ Len(database1.sequences) = 3
    /\ Len(database2.sequences) = 2
    /\ paired = <<1, 0, 0>>

(* C15: with equal type2idx and a method that is not None, 'random' or
   'feature', stitching and superposing raise nothing, pair nothing and
   return a database equal to database1. *)
C15_UnknownMethodReturnsFirst ==
    (Composing /\ database1.type2idx = database2.type2idx
        /\ method \notin {None, Some("random"), Some("feature")}) =>
        /\ raised = "none"
        /\ paired = <<>>
        /\ index = <<>>
        /\ probs = <<>>
        /\ orders = <<>>
        /\ output = database1

(* two targets and a candidate whose window is longer than 0, which a
   pairing would have added *)
C15_Witness ==
    /\ op = "stitching"
    /\ database1.type2idx = database2.type2idx
    /\ method = Some("other")
    /\ Len(database1.sequences) = 2
    /\ Len(database2.sequences) = 1
    /\ database2.sequences[1].t_stop > database2.sequences[1].t_start

(* a step that is one call of stitching, superposing or aggregating *)
CallStep == op = "none" /\ op' \in {"stitching", "superposing", "aggregating"}

(* out has the event features, the type maps and the sequence maps of db and
   as many sequences *)
SameFrame(out, db) ==
    /\ out.event_features = db.event_features
    /\ out.type2idx = db.type2idx
    /\ out.idx2type = db.idx2type
    /\ out.seq2idx = db.seq2idx
    /\ out.idx2seq = db.idx2seq
    /\ Len(out.sequences) = Len(db.sequences)

(* C16: a call of stitching, superposing or aggregating leaves both databases
   it was given as they were, in every field of every sequence, and the
   database it returns has the event features, the type and index maps and
   the sequence-name maps of the first one, and as many sequences. *)
C16_InputsKeptFrameCopied ==
    [][CallStep =>
          /\ database1' = database1
          /\ database2' = database2
          /\ (raised' = "none" => SameFrame(output', database1))]_vars

(* a stitching that changed a sequence of its output, on databases that
   differ in their event features and in their number of sequences *)
C16_Witness ==
    /\ PairedBy("stitching")
    /\ output.sequences # database1.sequences
    /\ database1.event_features # database2.event_features
    /\ Len(database1.sequences) > Len(database2.sequences)

(* C18 as stated: a SequenceSampler built with memorysize K is constructed
   whatever the numbers of events, holds one tuple per sequence, and the
   history events and history times of every tuple have K entries: the last
   K events of a sequence of K or more, else all events of the sequence in
   order at the end, after padding entries that carry t_start as their
   time. *)
C18_Original ==
    (op = "SequenceSampler" /\ ~IsNone(memory_size)) =>
        /\ raised = "none"
        /\ Len(event_cell) = Len(database1.sequences)
        /\ Len(time_cell) = Len(database1.sequences)
        /\ \A i \in 1 .. Len(event_cell) :
              LET k == Val(memory_size)
                  n == Len(A(i).times)
                  former == event_cell[i].former
                  former_t == time_cell[i].former_t
                  kept == Min2(n, k)
              IN  /\ Len(former) = k
                  /\ Len(former_t) = k
                  /\ \A x \in 1 .. kept :
                        /\ former[k - kept + x] = A(i).events[n - kept + x]
                        /\ former_t[k - kept + x] = A(i).times[n - kept + x]
                  /\ \A x \in 1 .. k - kept : former_t[x] = A(i).t_start

(* C19 as stated: when every sequence the composition starts from has
   t_start <= every timestamp <= t_stop, every sequence returned by a call of
   stitching or superposing, by either method and also on results of earlier
   calls, has t_start <= t_stop and t_start <= every timestamp <= t_stop. *)
C19_Original ==
    (Composing /\ raised = "none") =>
        \A i \in 1 .. Len(output.sequences) : Contained(output.sequences[i])

(* C20: when every timestamp of a sequence lies between its t_start and its
   t_stop, aggregating with any dt > 0 raises nothing, the bin index
   round((times[k] - t_start)/dt) of every event is at least 0 and below the
   number of bins, and every bin counts exactly the events with its index. *)
C20_ContainedEventsFitBins ==
    (op = "aggregating" /\ \A i \in Targets : Contained(A(i))) =>
        /\ raised = "none"
        /\ \A i \in Targets :
              LET num_bins == Len(Out(i).times)
              IN  /\ Len(Out(i).events) = num_bins
                  /\ \A k \in 1 .. Len(A(i).times) :
                        0 <= BinIndex(A(i), k, dt) /\ BinIndex(A(i), k, dt) < num_bins
                  /\ \A n \in 1 .. num_bins :
                        SumSeq(Out(i).events[n]) =
                            Cardinality({k \in 1 .. Len(A(i).times) :
                                            BinIndex(A(i), k, dt) = n - 1})

(* a window of 3 cut with dt = 2 into three bins (1.5 rounds to 2), and an
   event at the stop time that is counted in the last one *)
C20_Witness ==
    /\ op = "aggregating"
    /\ raised = "none"
    /\ Contained(A(1))
    /\ dt = 2
    /\ A(1).t_stop - A(1).t_start = 3
    /\ \E k \in 1 .. Len(A(1).times) : A(1).times[k] = A(1).t_stop
    /\ Len(Out(1).events) = 3
    /\ SumSeq(Out(1).events[3]) > 0

====
